---- MODULE Spec2Model ----
(***************************************************************************)
(* Model of app.py, the Streamlit regulatory-news dashboard.               *)
(*                                                                         *)
(* Streamlit executes the whole script from top to bottom once per user    *)
(* interaction (first page load, a widget change, a page refresh).  One    *)
(* action of this model is therefore one complete script run; an uncaught  *)
(* Python exception stops the run at the raising statement, and nothing    *)
(* after that statement is rendered.  The only state that survives from    *)
(* one run to the next is the st.cache_data memo of load_data and the      *)
(* values of the four sidebar widgets.                                     *)
(*                                                                         *)
(* A DataFrame is a sequence of rows; every row carries the label of the   *)
(* RangeIndex that pd.read_json gave it, so rows of one frame are distinct.*)
(* A string that the code inspects character by character (a title) is a   *)
(* sequence of one-character strings.                                      *)
(***************************************************************************)
EXTENDS Integers, Sequences, FiniteSets, TLC

\* ------------------------------------------------------------------------
\* Bounds of the model
\* ------------------------------------------------------------------------
\* longest snapshot built freely from the article catalogue
MaxLen == 2
\* longest snapshot of the long family
MaxRows == 9

\* ------------------------------------------------------------------------
\* Program constants
\* ------------------------------------------------------------------------
\* markets that have a colour: the keys of COLORS['markets']
COLORS_markets ==
  {"United States", "Japan", "United Kingdom", "Germany", "France"}

\* options of the impact-level multiselect
impact_options == {"high", "medium", "low"}

\* range of the relevance slider
slider_min == 0
slider_max == 10

\* keys of the market-name -> ISO code mapping of the map view
country_iso ==
  [m \in {"United States", "United Kingdom", "Japan", "Germany", "France"} |->
     CASE m = "United States" -> "USA"
       [] m = "United Kingdom" -> "GBR"
       [] m = "Japan" -> "JPN"
       [] m = "Germany" -> "DEU"
       [] m = "France" -> "FRA"]

\* sources left out of the curated table
excluded_sources == {"Economictimes.com", "Bitcoinist", "Cointelegraph"}

\* order of the markets in the curated table
market_order ==
  <<"United States", "United Kingdom", "Germany", "Japan", "France">>

\* rows per market in the curated table: nlargest(5, ...)
top_n == 5

\* ------------------------------------------------------------------------
\* Generic helpers on sequences
\* ------------------------------------------------------------------------
Range(s) == {s[i] : i \in 1..Len(s)}

RECURSIVE SumSeq(_)
SumSeq(s) == IF s = <<>> THEN 0 ELSE Head(s) + SumSeq(Tail(s))

\* the positions of s kept by boolean mask, in order (df[mask])
RECURSIVE BoolIndex(_, _)
BoolIndex(s, mask) ==
  IF s = <<>> THEN <<>>
  ELSE IF Head(mask) THEN <<Head(s)>> \o BoolIndex(Tail(s), Tail(mask))
       ELSE BoolIndex(Tail(s), Tail(mask))

\* Series.unique(): the distinct values in order of first appearance
RECURSIVE Unique(_)
Unique(s) ==
  IF s = <<>> THEN <<>>
  ELSE LET front == Unique(SubSeq(s, 1, Len(s) - 1))
           last == s[Len(s)]
       IN IF last \in Range(front) THEN front ELSE Append(front, last)

Count(s, v) == Cardinality({i \in 1..Len(s) : s[i] = v})

\* the most frequent value of a non-empty sequence; among equally frequent
\* values the one seen first (Counter.most_common(1), value_counts().index[0])
MostFrequent(s) ==
  LET u == Unique(s)
      best == CHOOSE i \in 1..Len(u) :
                /\ \A j \in 1..Len(u) : Count(s, u[j]) <= Count(s, u[i])
                /\ \A j \in 1..(i - 1) : Count(s, u[j]) < Count(s, u[i])
  IN u[best]

\* round-half-to-even of num/den (den > 0), the rounding of Python's
\* format() and round(); every mean and percentage of this model is a
\* fraction whose ties are exactly representable in binary floating point
RoundHalfEven(num, den) ==
  LET q == num \div den
      r == num % den
  IN IF 2 * r < den THEN q
     ELSE IF 2 * r > den THEN q + 1
     ELSE IF q % 2 = 0 THEN q ELSE q + 1

Column(frame, c) == [i \in 1..Len(frame) |-> frame[i][c]]

\* ------------------------------------------------------------------------
\* Title normalisation (line 404)
\* ------------------------------------------------------------------------
UpperCase ==
  <<"A", "B", "C", "D", "E", "F", "G", "H", "I", "J", "K", "L", "M",
    "N", "O", "P", "Q", "R", "S", "T", "U", "V", "W", "X", "Y", "Z">>
LowerCase ==
  <<"a", "b", "c", "d", "e", "f", "g", "h", "i", "j", "k", "l", "m",
    "n", "o", "p", "q", "r", "s", "t", "u", "v", "w", "x", "y", "z">>
Digits == {"0", "1", "2", "3", "4", "5", "6", "7", "8", "9"}
Whitespace == {" "}

\* str.lower() on one character
LowerChar(c) ==
  IF \E k \in 1..Len(UpperCase) : UpperCase[k] = c
  THEN LowerCase[CHOOSE k \in 1..Len(UpperCase) : UpperCase[k] = c]
  ELSE c

str_lower(s) == [i \in 1..Len(s) |-> LowerChar(s[i])]

\* a character the pattern [^a-z0-9\s] does not match, so it is kept
KeptChar(c) == c \in Range(LowerCase) \cup Digits \cup Whitespace

str_replace(s) == SelectSeq(s, KeptChar)

title_normalized(title) == str_replace(str_lower(title))

\* ------------------------------------------------------------------------
\* Exceptions
\* ------------------------------------------------------------------------
NoException == [type |-> "none", line |-> 0]
Raise(t, l) == [type |-> t, line |-> l]

\* ------------------------------------------------------------------------
\* load_data (lines 37-45)
\* ------------------------------------------------------------------------
\* a glob without the name pattern: every file of the directory
GlobEveryFile(dir) == dir

\* processed_dir.glob('analyzed_articles_*.json')
Glob(dir) ==
  {f \in dir : f.prefix = "analyzed_articles" /\ f.suffix = "json"}

\* file names differ only in their <date>_<time> part, so sorted() orders
\* them by date, then time
NameLess(f, g) == f.date < g.date \/ (f.date = g.date /\ f.time < g.time)

\* sorted(...)[-1]
LatestFile(files) == CHOOSE f \in files : \A g \in files \ {f} : NameLess(g, f)

\* pd.read_json: one row per article, labelled 0, 1, 2, ...
read_json(articles) ==
  [i \in 1..Len(articles) |->
     [index |-> i - 1,
      title |-> articles[i].title,
      market_name |-> articles[i].market_name,
      category |-> articles[i].category,
      relevance_score |-> articles[i].relevance_score,
      impact_level |-> articles[i].impact_level,
      key_regulators |-> articles[i].key_regulators,
      source_name |-> articles[i].source_name]]

\* the body of load_data, run on a cache miss.  An empty JSON array gives a
\* frame without columns, and df['publishedAt'] raises KeyError.
load_data(dir) ==
  IF Glob(dir) = {}
  THEN [exception |-> Raise("IndexError", 40), df |-> <<>>, timestamp |-> <<0, 0>>]
  ELSE LET latest_file == LatestFile(Glob(dir))
       IN IF latest_file.articles = <<>>
          THEN [exception |-> Raise("KeyError", 42), df |-> <<>>,
                timestamp |-> <<0, 0>>]
          ELSE [exception |-> NoException,
                df |-> read_json(latest_file.articles),
                timestamp |-> <<latest_file.date, latest_file.time>>]

\* ------------------------------------------------------------------------
\* Filters (lines 119-125)
\* ------------------------------------------------------------------------
\* membership that reads an empty selection as "no restriction"
isin_or_unrestricted(v, values) == values = {} \/ v \in values

\* Series.isin(values)
isin(v, values) == v \in values

\* the mask with a strict comparison of the relevance score
FilterMaskStrict(frame, markets, relevance, categories, impact) ==
  [i \in 1..Len(frame) |->
     /\ isin(frame[i].market_name, markets)
     /\ frame[i].relevance_score > relevance
     /\ isin(frame[i].category, categories)
     /\ isin(frame[i].impact_level, impact)]

FilterMask(frame, markets, relevance, categories, impact) ==
  [i \in 1..Len(frame) |->
     /\ isin(frame[i].market_name, markets)
     /\ frame[i].relevance_score >= relevance
     /\ isin(frame[i].category, categories)
     /\ isin(frame[i].impact_level, impact)]

ApplyFilters(frame, markets, relevance, categories, impact) ==
  BoolIndex(frame, FilterMask(frame, markets, relevance, categories, impact))

\* ------------------------------------------------------------------------
\* Key metrics (lines 135-165)
\* ------------------------------------------------------------------------
\* Series.mean() formatted with one decimal: tenths, or NaN on no rows
MeanTenths(scores) ==
  IF scores = <<>> THEN [nan |-> TRUE, tenths |-> 0]
  ELSE [nan |-> FALSE,
        tenths |-> RoundHalfEven(10 * SumSeq(scores), Len(scores))]

HighImpact(frame) == SelectSeq(frame, LAMBDA r : r.impact_level = "high")

NoMetrics ==
  [total |-> 0, total_pct |-> 0, avg_relevance |-> [nan |-> FALSE, tenths |-> 0],
   high_impact |-> 0, high_pct |-> 0, markets_covered |-> 0]

\* the four st.metric calls in order; a division by zero in an argument
\* raises before that metric is drawn
KeyMetrics(frame, filtered) ==
  LET avg == MeanTenths(Column(filtered, "relevance_score"))
      high == Len(HighImpact(filtered))
  IN IF Len(frame) = 0
     THEN [exception |-> Raise("ZeroDivisionError", 141), rendered |-> {},
           metrics |-> NoMetrics]
     ELSE IF Len(filtered) = 0
     THEN [exception |-> Raise("ZeroDivisionError", 156),
           rendered |-> {"total_metric", "avg_metric"},
           metrics |-> [NoMetrics EXCEPT
                          !.total_pct = RoundHalfEven(100 * 0, Len(frame)),
                          !.avg_relevance = avg]]
     ELSE [exception |-> NoException,
           rendered |-> {"total_metric", "avg_metric", "high_metric",
                         "markets_metric"},
           metrics |->
             [total |-> Len(filtered),
              total_pct |-> RoundHalfEven(100 * Len(filtered), Len(frame)),
              avg_relevance |-> avg,
              high_impact |-> high,
              high_pct |-> RoundHalfEven(100 * high, Len(filtered)),
              markets_covered |->
                Cardinality(Range(Column(filtered, "market_name")))]]

\* ------------------------------------------------------------------------
\* Tab 1: market overview (lines 174-258)
\* ------------------------------------------------------------------------
MarketRows(frame, market) ==
  SelectSeq(frame, LAMBDA r : r.market_name = market)

\* groupby('market_name').agg(count, mean): one row per market; the mean is
\* kept as the exact fraction score_sum / article_count
MarketOverview(filtered) ==
  {[market |-> m,
    article_count |-> Len(MarketRows(filtered, m)),
    score_sum |-> SumSeq(Column(MarketRows(filtered, m), "relevance_score"))] :
     m \in Range(Column(filtered, "market_name"))}

\* COLORS['markets'][m] for every market of the chart (lines 191 and 241)
Tab1(filtered) ==
  IF \E m \in Range(Column(filtered, "market_name")) : m \notin COLORS_markets
  THEN [exception |-> Raise("KeyError", 191), rendered |-> {},
        market_overview |-> {}]
  ELSE [exception |-> NoException,
        rendered |-> {"market_overview_chart", "relevance_distribution_chart"},
        market_overview |-> MarketOverview(filtered)]

\* ------------------------------------------------------------------------
\* Tab 2: categories by market (lines 262-307)
\* ------------------------------------------------------------------------
\* pd.crosstab(market_name, category): a count for every pair of a market
\* and a category that occur in the frame
crosstab(filtered) ==
  [index |-> Range(Column(filtered, "market_name")),
   columns |-> Range(Column(filtered, "category")),
   cell |-> [p \in Range(Column(filtered, "market_name")) \X
                   Range(Column(filtered, "category")) |->
              Cardinality({i \in 1..Len(filtered) :
                             /\ filtered[i].market_name = p[1]
                             /\ filtered[i].category = p[2]})]]

EmptyTable == [index |-> {}, columns |-> {}, cell |-> <<>>]

\* lines 271-273: add the cross_border_investment column to 'other', then
\* drop it; reading a missing 'other' column raises KeyError
FoldCrossBorder(t) ==
  IF "cross_border_investment" \in t.columns
  THEN IF "other" \notin t.columns
       THEN [exception |-> Raise("KeyError", 272), table |-> EmptyTable]
       ELSE [exception |-> NoException,
             table |->
               [index |-> t.index,
                columns |-> t.columns \ {"cross_border_investment"},
                cell |-> [p \in t.index \X
                                (t.columns \ {"cross_border_investment"}) |->
                           IF p[2] = "other"
                           THEN t.cell[p] +
                                t.cell[<<p[1], "cross_border_investment">>]
                           ELSE t.cell[p]]]]
  ELSE [exception |-> NoException, table |-> t]

Tab2(filtered) ==
  LET folded == FoldCrossBorder(crosstab(filtered))
  IN [exception |-> folded.exception,
      rendered |-> IF folded.exception = NoException
                   THEN {"category_chart"} ELSE {},
      category_market |-> folded.table]

\* ------------------------------------------------------------------------
\* Tab 3: geographic view (lines 309-395)
\* ------------------------------------------------------------------------
\* lines 325-334: the regulators of all rows whose key_regulators is a list
RECURSIVE AllRegs(_)
AllRegs(frame) ==
  IF frame = <<>> THEN <<>>
  ELSE (IF Head(frame).key_regulators.is_list
        THEN Head(frame).key_regulators.items ELSE <<>>)
       \o AllRegs(Tail(frame))

TopRegulator(market_df) ==
  IF AllRegs(market_df) # <<>>
  THEN [name |-> MostFrequent(AllRegs(market_df)),
        mentions |-> Count(AllRegs(market_df), MostFrequent(AllRegs(market_df)))]
  ELSE [name |-> "N/A", mentions |-> 0]

MapRecord(filtered, market) ==
  LET market_df == MarketRows(filtered, market)
  IN [market |-> market,
      iso_code |-> country_iso[market],
      article_count |-> Len(market_df),
      avg_relevance |->
        RoundHalfEven(10 * SumSeq(Column(market_df, "relevance_score")),
                      Len(market_df)),
      high_impact_count |-> Len(HighImpact(market_df)),
      top_regulator |-> TopRegulator(market_df),
      primary_focus |-> MostFrequent(Column(market_df, "category"))]

\* one record per market of the frame, in order of first appearance;
\* country_iso[market] raises KeyError for a market that is not a key
Tab3(filtered) ==
  LET markets == Unique(Column(filtered, "market_name"))
  IN IF \E i \in 1..Len(markets) : markets[i] \notin DOMAIN country_iso
     THEN [exception |-> Raise("KeyError", 340), rendered |-> {},
           map_data |-> <<>>]
     ELSE [exception |-> NoException, rendered |-> {"choropleth_map"},
           map_data |-> [i \in 1..Len(markets) |->
                           MapRecord(filtered, markets[i])]]
\* ------------------------------------------------------------------------
\* Tab 4: curated top articles (lines 399-467)
\* ------------------------------------------------------------------------
\* lines 403-404: df_clean, the frame with the title_normalized column
WithNormalizedTitle(frame) ==
  [i \in 1..Len(frame) |->
     ("title_normalized" :> title_normalized(frame[i].title)) @@ frame[i]]

\* drop_duplicates with keep='last'
drop_duplicates_keep_last(frame) ==
  BoolIndex(frame,
            [i \in 1..Len(frame) |->
               \A j \in (i + 1)..Len(frame) :
                 frame[j].title_normalized # frame[i].title_normalized])

\* drop_duplicates(subset='title_normalized', keep='first')
drop_duplicates(frame) ==
  BoolIndex(frame,
            [i \in 1..Len(frame) |->
               \A j \in 1..(i - 1) :
                 frame[j].title_normalized # frame[i].title_normalized])

\* lines 403-405: the frame called df_unique at line 405
TitleDedup(frame) == drop_duplicates(WithNormalizedTitle(frame))

\* the curated frame without the source filter
KeepAllSources(frame) == frame

\* line 409: df_unique[~df_unique['source_name'].isin(excluded_sources)]
ExcludeSources(frame) ==
  BoolIndex(frame,
            [i \in 1..Len(frame) |->
               ~isin(frame[i].source_name, excluded_sources)])

RemoveAt(s, k) == SubSeq(s, 1, k - 1) \o SubSeq(s, k + 1, Len(s))

\* DataFrame.head(n): the first n rows, whatever their score
head(n, frame) == SubSeq(frame, 1, IF n < Len(frame) THEN n ELSE Len(frame))

\* DataFrame.nlargest(n, 'relevance_score'), keep='first': the n rows of
\* highest score in descending order, equal scores in frame order
RECURSIVE nlargest(_, _)
nlargest(n, frame) ==
  IF n = 0 \/ frame = <<>> THEN <<>>
  ELSE LET k == CHOOSE i \in 1..Len(frame) :
                  /\ \A j \in 1..Len(frame) :
                       frame[j].relevance_score <= frame[i].relevance_score
                  /\ \A j \in 1..(i - 1) :
                       frame[j].relevance_score < frame[i].relevance_score
       IN <<frame[k]>> \o nlargest(n - 1, RemoveAt(frame, k))

\* lines 415-419 from position k of market_order on, concatenated (line 422)
RECURSIVE TopArticlesFrom(_, _)
TopArticlesFrom(frame, k) ==
  IF k > Len(market_order) THEN <<>>
  ELSE (IF market_order[k] \in Range(Column(frame, "market_name"))
        THEN nlargest(top_n, MarketRows(frame, market_order[k]))
        ELSE <<>>)
       \o TopArticlesFrom(frame, k + 1)

Tab4(filtered) ==
  LET deduplicated == TitleDedup(filtered)
      top_articles == TopArticlesFrom(ExcludeSources(deduplicated), 1)
  IN IF top_articles = <<>>
     THEN [exception |-> NoException, rendered |-> {"no_articles_info"},
           df_unique |-> deduplicated, top_articles |-> <<>>]
     ELSE IF \E i \in 1..Len(top_articles) :
               top_articles[i].market_name \notin COLORS_markets
     THEN [exception |-> Raise("KeyError", 428), rendered |-> {},
           df_unique |-> deduplicated, top_articles |-> top_articles]
     ELSE [exception |-> NoException, rendered |-> {"top_articles_table"},
           df_unique |-> deduplicated, top_articles |-> top_articles]

\* ------------------------------------------------------------------------
\* One run of the script below load_data (lines 78-478)
\* ------------------------------------------------------------------------
\* incremental filtering: narrow the filtered frame of the run before
FilterPrevious(loaded, previous) ==
  IF previous = <<>> THEN loaded ELSE previous

\* the frame the filters are applied to (line 120): the loaded frame, never
\* the filtered frame of the run before
FilterSource(loaded, previous) == loaded

\* The sections run in order; the first exception ends the run, and what a
\* later section would have drawn is absent from the page.
Script(frame, previous, markets, relevance, categories, impact) ==
  LET filtered == ApplyFilters(FilterSource(frame, previous), markets,
                               relevance, categories, impact)
      km == KeyMetrics(frame, filtered)
      t1 == Tab1(filtered)
      t2 == Tab2(filtered)
      t3 == Tab3(filtered)
      t4 == Tab4(filtered)
      ok1 == km.exception = NoException
      ok2 == ok1 /\ t1.exception = NoException
      ok3 == ok2 /\ t2.exception = NoException
      ok4 == ok3 /\ t3.exception = NoException
      ok5 == ok4 /\ t4.exception = NoException
  IN [df_filtered |-> filtered,
      metrics |-> km.metrics,
      market_overview |-> IF ok1 THEN t1.market_overview ELSE {},
      category_market |-> IF ok2 THEN t2.category_market ELSE EmptyTable,
      map_data |-> IF ok3 THEN t3.map_data ELSE <<>>,
      df_unique |-> IF ok4 THEN t4.df_unique ELSE <<>>,
      top_articles |-> IF ok4 THEN t4.top_articles ELSE <<>>,
      rendered |-> {"header", "sidebar"} \cup km.rendered
                   \cup (IF ok1 THEN t1.rendered ELSE {})
                   \cup (IF ok2 THEN t2.rendered ELSE {})
                   \cup (IF ok3 THEN t3.rendered ELSE {})
                   \cup (IF ok4 THEN t4.rendered ELSE {})
                   \cup (IF ok5 THEN {"footer"} ELSE {}),
      exception |-> IF ~ok1 THEN km.exception
                    ELSE IF ~ok2 THEN t1.exception
                    ELSE IF ~ok3 THEN t2.exception
                    ELSE IF ~ok4 THEN t3.exception
                    ELSE t4.exception]
\* ------------------------------------------------------------------------
\* Input data: the snapshots a file of data/processed may hold
\* ------------------------------------------------------------------------
Regulators(items) == [is_list |-> TRUE, items |-> items]
NotAList == [is_list |-> FALSE, items |-> <<>>]

Article(title, market, category, score, impact, regulators, source) ==
  [title |-> title, market_name |-> market, category |-> category,
   relevance_score |-> score, impact_level |-> impact,
   key_regulators |-> regulators, source_name |-> source]

\* a catalogue of articles that differ in every attribute the script reads:
\* two pairs of titles that normalise to the same text (the block-listed
\* source first in one pair, second in the other), a market without colour
\* or ISO code, cross_border_investment with and without 'other'
Catalogue ==
  <<Article(<<"e", "c", "b">>, "United Kingdom", "cross_border_investment", 5,
            "low", Regulators(<<"FCA">>), "Cointelegraph"),
    Article(<<"E", "C", "B", "!">>, "United States", "other", 9, "high",
            Regulators(<<"SEC", "Fed", "SEC">>), "Reuters"),
    Article(<<"B", "o", "J", " ", "2">>, "Japan", "monetary_policy", 10,
            "medium", NotAList, "Reuters"),
    Article(<<"b", "o", "j", " ", "2", "?">>, "United States",
            "cross_border_investment", 10, "high", Regulators(<<"SEC">>),
            "Bitcoinist"),
    Article(<<"O", "i", "l">>, "Norway", "other", 4, "high",
            Regulators(<<>>), "Reuters")>>

\* the articles of the catalogue at the positions of `chosen`, in order
RECURSIVE Pick(_, _)
Pick(chosen, k) ==
  IF k > Len(Catalogue) THEN <<>>
  ELSE (IF k \in chosen THEN <<Catalogue[k]>> ELSE <<>>) \o Pick(chosen, k + 1)

\* every snapshot of 1 to MaxLen catalogue articles, in catalogue order
CatalogueSnapshots ==
  {Pick(chosen, 1) :
     chosen \in {c \in SUBSET (1..Len(Catalogue)) :
                   Cardinality(c) \in 1..MaxLen}}

\* relevance scores of the rows of a long snapshot, as a function of the
\* row number i of n
Patterns == {"ascending", "descending", "flat", "zigzag"}
PatternScore(p, i, n) ==
  CASE p = "ascending" -> i
    [] p = "descending" -> n + 1 - i
    [] p = "flat" -> 5
    [] p = "zigzag" -> IF i % 2 = 1 THEN 8 ELSE 3

\* row i of a long snapshot: rows 1 and 2 share their normalised title, row
\* 3 comes from a block-listed source, row 4 is the only one of its market
LongArticle(p, i, n) ==
  Article(CASE i = 1 -> <<"F", "e", "d", "!">>
            [] i = 2 -> <<"f", "e", "d">>
            [] OTHER -> <<"R", "u", "l", "e", " ", LowerCase[i]>>,
          IF i = 4 THEN "United Kingdom" ELSE "United States",
          "securities_regulation",
          PatternScore(p, i, n),
          IF i % 2 = 0 THEN "high" ELSE "low",
          Regulators(<<"SEC">>),
          IF i = 3 THEN "Cointelegraph" ELSE "Reuters")

\* the long snapshots have MaxRows - 2 to MaxRows rows
LongSnapshots ==
  {[i \in 1..n |-> LongArticle(p, i, n)] :
     n \in (MaxRows - 2)..MaxRows, p \in Patterns}

Snapshots == CatalogueSnapshots \cup LongSnapshots

SnapshotFile(date, time, articles) ==
  [prefix |-> "analyzed_articles", suffix |-> "json", date |-> date,
   time |-> time, articles |-> articles]

\* a file of the directory that the glob pattern does not match
OtherFile ==
  [prefix |-> "raw_articles", suffix |-> "json", date |-> 3, time |-> 1,
   articles |-> <<>>]

\* the file the upstream job writes while the dashboard is running
LaterFile ==
  SnapshotFile(2, 2, <<Article(<<"B", "o", "E">>, "United Kingdom",
                               "banking_regulation", 7, "medium",
                               Regulators(<<"BoE">>), "Reuters")>>)

\* positions the user drags the relevance slider to
SliderStops == {slider_min, 5, slider_max}

\* ------------------------------------------------------------------------
\* State
\* ------------------------------------------------------------------------
VARIABLES
  disk,                \* the files of data/processed
  cache,               \* the st.cache_data memo of load_data()
  widgets,             \* TRUE once the sidebar widgets exist in the session
  selected_markets,    \* value of the "Select Markets" multiselect
  min_relevance,       \* value of the relevance slider
  selected_categories, \* value of the "Select Categories" multiselect
  selected_impact,     \* value of the "Impact Level" multiselect
  runs,                \* has the script run at all
  page,                \* the script variables and the page of the last run
  first_page           \* history: the page of the first complete load

session == <<widgets, selected_markets, min_relevance, selected_categories,
             selected_impact>>
vars == <<disk, cache, session, runs, page, first_page>>

\* the script variables of the last run
df == page.df
timestamp == page.timestamp
df_filtered == page.df_filtered
metrics == page.metrics
market_overview == page.market_overview
category_market == page.category_market
map_data == page.map_data
df_unique == page.df_unique
top_articles == page.top_articles
\* the elements drawn by the last run, and the exception that ended it
rendered == page.rendered
exception == page.exception

EmptyCache == [filled |-> FALSE, df |-> <<>>, timestamp |-> <<0, 0>>]

NoPage ==
  [df |-> <<>>, timestamp |-> <<0, 0>>, df_filtered |-> <<>>,
   metrics |-> NoMetrics, market_overview |-> {},
   category_market |-> EmptyTable, map_data |-> <<>>, df_unique |-> <<>>,
   top_articles |-> <<>>, rendered |-> {}, exception |-> NoException]

Init ==
  /\ disk \in {{}, {OtherFile}} \cup {{SnapshotFile(2, 1, s)} : s \in Snapshots}
                \cup {{SnapshotFile(2, 1, <<>>)}}
  /\ cache = EmptyCache
  /\ widgets = FALSE
  /\ selected_markets = {}
  /\ min_relevance = slider_min
  /\ selected_categories = {}
  /\ selected_impact = {}
  /\ runs = FALSE
  /\ page = NoPage
  /\ first_page = NoPage

\* @st.cache_data: the memoised value on a hit, the function body on a miss
CachedLoad(memo, dir) ==
  IF memo.filled
  THEN [exception |-> NoException, df |-> memo.df, timestamp |-> memo.timestamp]
  ELSE load_data(dir)

\* One script run.  The requested widget values are used when the widgets
\* exist already; on their first creation they take their defaults (lines
\* 90-117).  An exception of load_data is not memoised.
Execute(markets, relevance, categories, impact) ==
  LET loaded == CachedLoad(cache, disk)
  IN /\ runs' = TRUE
     /\ UNCHANGED disk
     /\ IF loaded.exception # NoException
        THEN /\ UNCHANGED <<cache, session, first_page>>
             /\ page' = [NoPage EXCEPT !.exception = loaded.exception]
        ELSE LET m == IF widgets THEN markets
                      ELSE Range(Column(loaded.df, "market_name"))
                 r == IF widgets THEN relevance ELSE slider_min
                 c == IF widgets THEN categories
                      ELSE Range(Column(loaded.df, "category"))
                 i == IF widgets THEN impact ELSE impact_options
                 out == Script(loaded.df, df_filtered, m, r, c, i)
             IN /\ cache' = [filled |-> TRUE, df |-> loaded.df,
                             timestamp |-> loaded.timestamp]
                /\ widgets' = TRUE
                /\ selected_markets' = m
                /\ min_relevance' = r
                /\ selected_categories' = c
                /\ selected_impact' = i
                /\ page' = [df |-> loaded.df, timestamp |-> loaded.timestamp]
                            @@ out
                /\ first_page' = IF widgets THEN first_page ELSE page'

\* the page is opened or refreshed
Rerun ==
  Execute(selected_markets, min_relevance, selected_categories, selected_impact)

\* the user changes the "Select Markets" multiselect
SelectMarkets ==
  /\ widgets
  /\ \E s \in SUBSET Range(Column(cache.df, "market_name")) :
       /\ s # selected_markets
       /\ Execute(s, min_relevance, selected_categories, selected_impact)

\* the user moves the relevance slider
SlideRelevance ==
  /\ widgets
  /\ \E v \in SliderStops :
       /\ v # min_relevance
       /\ Execute(selected_markets, v, selected_categories, selected_impact)

\* the user changes the "Select Categories" multiselect
SelectCategories ==
  /\ widgets
  /\ \E s \in SUBSET Range(Column(cache.df, "category")) :
       /\ s # selected_categories
       /\ Execute(selected_markets, min_relevance, s, selected_impact)

\* the user changes the "Impact Level" multiselect
SelectImpact ==
  /\ widgets
  /\ \E s \in SUBSET impact_options :
       /\ s # selected_impact
       /\ Execute(selected_markets, min_relevance, selected_categories, s)

\* the upstream job writes a newer snapshot file
AddFile ==
  /\ LaterFile \notin disk
  /\ disk' = disk \cup {LaterFile}
  /\ UNCHANGED <<cache, session, runs, page, first_page>>

Next ==
  \/ Rerun
  \/ SelectMarkets
  \/ SlideRelevance
  \/ SelectCategories
  \/ SelectImpact
  \/ AddFile

Spec == Init /\ [][Next]_vars
\* ------------------------------------------------------------------------
\* Properties
\* ------------------------------------------------------------------------
\* a run got past load_data: the script variables of `page` are its values
Loaded == cache.filled

\* tab 4 ran to its end: it drew the table or the "no articles" note
Tab4Done == "top_articles_table" \in rendered \/ "no_articles_info" \in rendered

\* does row r pass the four filters of the session
PassesFilters(r) ==
  /\ r.market_name \in selected_markets
  /\ r.relevance_score >= min_relevance
  /\ r.category \in selected_categories
  /\ r.impact_level \in selected_impact

Indexes(frame) == {frame[i].index : i \in 1..Len(frame)}

BlockList == {"Economictimes.com", "Bitcoinist", "Cointelegraph"}

FiveMarkets ==
  {"United States", "United Kingdom", "Germany", "Japan", "France"}

\* index labels of the rows of df_filtered that are the first with their
\* normalised title
FirstSeen ==
  {r.index : r \in {x \in Range(df_filtered) :
                      \A y \in Range(df_filtered) :
                        title_normalized(y.title) = title_normalized(x.title)
                          => x.index <= y.index}}

\* the rows of market m that qualify for the curated table
Qualifying(m) ==
  {r \in Range(df_filtered) :
     /\ r.market_name = m
     /\ r.index \in FirstSeen
     /\ r.source_name \notin BlockList}

\* index labels of the rows of market m in the curated table
Curated(m) ==
  {top_articles[i].index :
     i \in {j \in 1..Len(top_articles) : top_articles[j].market_name = m}}

RECURSIVE SumSet(_, _)
SumSet(f, keys) ==
  IF keys = {} THEN 0
  ELSE LET k == CHOOSE x \in keys : TRUE
       IN f[k] + SumSet(f, keys \ {k})

\* C1: after every run that loaded the snapshot, df_filtered holds exactly
\* the rows of df that pass all four filters, each once, so it is never
\* longer than df
C1_FilteredIsExactlyTheMatchingRows ==
  Loaded =>
    /\ Range(df_filtered) = {r \in Range(df) : PassesFilters(r)}
    /\ Cardinality(Range(df_filtered)) = Len(df_filtered)
    /\ Len(df_filtered) <= Len(df)

\* C1 witness: every one of the four filters is narrowed and the filtered
\* frame is a non-empty proper part of the snapshot
C1_Witness ==
  /\ Loaded
  /\ Len(df_filtered) > 0
  /\ Len(df_filtered) < Len(df)
  /\ min_relevance > slider_min
  /\ selected_impact # impact_options
  /\ selected_markets # Range(Column(df, "market_name"))
  /\ selected_categories # Range(Column(df, "category"))

\* C2: with an empty filtered frame the run ends without exception, no
\* metric is NaN, all four metrics are drawn and the "no articles" note of
\* the curated table is shown
C2_EmptyResultDegradesGracefully ==
  (Loaded /\ df_filtered = <<>>) =>
    /\ exception = NoException
    /\ ~metrics.avg_relevance.nan
    /\ {"total_metric", "avg_metric", "high_metric", "markets_metric"}
         \subseteq rendered
    /\ "no_articles_info" \in rendered

\* C3: with a market outside the five mapped ones in the filtered frame the
\* run ends in the KeyError of the map view's country_iso lookup, the map is
\* not drawn and the three other tabs are
C3_UnmappedMarketAbortsOnlyTheMap ==
  (Loaded /\ \E r \in Range(df_filtered) : r.market_name \notin FiveMarkets) =>
    /\ exception = Raise("KeyError", 340)
    /\ "choropleth_map" \notin rendered
    /\ {"market_overview_chart", "relevance_distribution_chart",
        "category_chart"} \subseteq rendered
    /\ Tab4Done

\* C4: a run over a directory without any analyzed_articles_*.json file
\* ends in load_data's IndexError (no snapshot found) and draws nothing; no
\* frame is memoised and no widget is created
C4_NoSnapshotIsFatal ==
  (runs /\ \A f \in disk : f.prefix # "analyzed_articles") =>
    /\ exception = Raise("IndexError", 40)
    /\ rendered = {}
    /\ ~cache.filled
    /\ ~widgets
    /\ df = <<>>

\* C4 witness: the script ran on a directory whose only file does not match
\* the pattern
C4_Witness ==
  /\ runs
  /\ disk = {OtherFile}
  /\ exception.type = "IndexError"

\* C5: whenever tab 2 is reached, its chart is drawn and the cells of
\* category_market add up to the number of filtered rows
C5_CrossTabSumsToFilteredSize ==
  (Loaded /\ "relevance_distribution_chart" \in rendered) =>
    /\ "category_chart" \in rendered
    /\ "cross_border_investment" \notin category_market.columns
    /\ SumSet(category_market.cell, DOMAIN category_market.cell)
         = Len(df_filtered)

\* C6: the curated table holds, for every market of market_order, min(5, q)
\* rows, q being the number of that market's filtered rows that are the
\* first of their normalised title and not from a block-listed source;
\* they are qualifying rows, and no qualifying row left out has a higher
\* score than one that is in
C6_TopFivePerMarket ==
  Tab4Done =>
    /\ \A k \in 1..Len(market_order) :
         LET q == Qualifying(market_order[k])
             c == Curated(market_order[k])
         IN /\ Cardinality(c) = IF Cardinality(q) < 5 THEN Cardinality(q) ELSE 5
            /\ c \subseteq {r.index : r \in q}
            /\ \A r \in q, u \in q :
                 (r.index \in c /\ u.index \notin c)
                   => r.relevance_score >= u.relevance_score
    /\ Cardinality(Indexes(top_articles)) = Len(top_articles)
    /\ \A i \in 1..Len(top_articles) :
         top_articles[i].market_name \in Range(market_order)

\* C6 witness: one market has more than five qualifying rows and another
\* has fewer, and the table is drawn
C6_Witness ==
  /\ "top_articles_table" \in rendered
  /\ \E k \in 1..Len(market_order) : Cardinality(Qualifying(market_order[k])) > 5
  /\ \E k \in 1..Len(market_order) :
       Cardinality(Qualifying(market_order[k])) \in 1..4

\* C7: no row of the curated table comes from a block-listed source, while
\* every block-listed row that passes the filters is in df_filtered and is
\* counted by the metrics and by the market overview
C7_BlockListedSourcesOnlyLeaveTheTable ==
  /\ Tab4Done =>
       \A i \in 1..Len(top_articles) : top_articles[i].source_name \notin BlockList
  /\ Loaded =>
       /\ \A r \in Range(df) :
            (r.source_name \in BlockList /\ PassesFilters(r))
              => r \in Range(df_filtered)
       /\ "total_metric" \in rendered => metrics.total = Len(df_filtered)
       /\ "market_overview_chart" \in rendered =>
            \A m \in FiveMarkets :
              \A row \in {x \in market_overview : x.market = m} :
                row.article_count =
                  Cardinality({r \in Range(df_filtered) : r.market_name = m})

\* C7 witness: the table is drawn, and a block-listed row of the filtered
\* frame has the highest score of all filtered rows
C7_Witness ==
  /\ "top_articles_table" \in rendered
  /\ \E r \in Range(df_filtered) :
       /\ r.source_name = "Cointelegraph"
       /\ \A u \in Range(df_filtered) : u.relevance_score <= r.relevance_score
       /\ \E u \in Range(df_filtered) : u.relevance_score < r.relevance_score

\* C8: deduplicating df_unique again returns df_unique; df_unique keeps of
\* every normalised title of df_filtered exactly the first row; and of the
\* titles "ECB!" and "ecb" at most one is kept
C8_DeduplicationIsIdempotent ==
  Tab4Done =>
    /\ TitleDedup(df_unique) = df_unique
    /\ Indexes(df_unique) = FirstSeen
    /\ Cardinality(Indexes(df_unique)) = Len(df_unique)
    /\ \A i, j \in 1..Len(df_unique) :
         i < j => df_unique[i].index < df_unique[j].index
    /\ ~(\E a, b \in Range(df_unique) :
           a.title = <<"E", "C", "B", "!">> /\ b.title = <<"e", "c", "b">>)
    /\ ~(\E a, b \in Range(df_unique) :
           a.title = <<"F", "e", "d", "!">> /\ b.title = <<"f", "e", "d">>)

\* C8 witness: deduplication removed a row and kept several
C8_Witness ==
  /\ Tab4Done
  /\ Len(df_unique) < Len(df_filtered)
  /\ Len(df_unique) > 1

\* C9: an empty selection in any of the three multiselects leaves no row in
\* df_filtered
C9_EmptySelectionSelectsNothing ==
  (Loaded /\ (selected_markets = {} \/ selected_categories = {}
                \/ selected_impact = {})) =>
    /\ df_filtered = <<>>
    /\ metrics.total = 0

\* C9 witness: only the market selection is empty; the other filters admit
\* every row of a non-empty snapshot
C9_Witness ==
  /\ Loaded
  /\ df # <<>>
  /\ selected_markets = {}
  /\ min_relevance = slider_min
  /\ selected_categories = Range(Column(df, "category"))
  /\ selected_impact = impact_options

\* the page a first run would draw for the given frame and filters
FreshPage(frame, stamp, markets, relevance, categories, impact) ==
  [df |-> frame, timestamp |-> stamp]
    @@ Script(frame, <<>>, markets, relevance, categories, impact)

\* C10: in every step, once the snapshot is loaded it stays the loaded one
\* (also when newer files appear); a step that leaves the widgets alone
\* leaves the page alone; the page after a step is the page a first run
\* would draw for the new widget values; and back at the default filters
\* the page is again the page of the first load
C10_ViewsDependOnlyOnCurrentFilters ==
  [][/\ Loaded => (cache' = cache /\ df' = cache.df)
     /\ (Loaded /\ session' = session) => page' = page
     /\ cache'.filled =>
          /\ page'.df = cache'.df
          /\ page' = FreshPage(cache'.df, cache'.timestamp, selected_markets',
                               min_relevance', selected_categories',
                               selected_impact')
          /\ (/\ selected_markets' = Range(Column(cache'.df, "market_name"))
              /\ min_relevance' = slider_min
              /\ selected_categories' = Range(Column(cache'.df, "category"))
              /\ selected_impact' = impact_options)
               => page' = first_page']_vars

\* C10 witness: all four widgets were changed (four filter changes at
\* least), a newer snapshot file is on disk, and the page still shows the
\* snapshot loaded first
C10_Witness ==
  /\ Loaded
  /\ LaterFile \in disk
  /\ timestamp # <<LaterFile.date, LaterFile.time>>
  /\ selected_markets # Range(Column(df, "market_name"))
  /\ min_relevance # slider_min
  /\ selected_categories # Range(Column(df, "category"))
  /\ selected_impact # impact_options
  /\ Len(df_filtered) > 0
  /\ page # first_page
====
